---- MODULE Spec2Model ----
(***************************************************************************)
(* Board composition engine of schneider_cfi:                              *)
(*   - computeTiles            (CommunicationBoardDemo.tsx)                *)
(*   - calculateBoardLayout / generateAsymmetricSpiralPositions            *)
(*   - the NewBoard session: send, startGeneration, startPolling, ...      *)
(* Three specifications share the module: SpecTiles and SpecLayout apply   *)
(* the pure functions to inputs drawn from bounded sets, Spec is the       *)
(* NewBoard component with its timers and requests in flight.              *)
(***************************************************************************)
EXTENDS Integers, Sequences, FiniteSets, TLC

VARIABLES
    tilesArgs,      \* arguments of one computeTiles call
    tilesResult,    \* the results of the calls made so far, oldest first
    tilesSafety,    \* the value of safety when the loop of each call ended
    layoutArgs,     \* arguments of one layout call
    layoutResult,   \* <<>> before the call, <<result>> after it
    \* --- the NewBoard component ---
    mounted,        \* FALSE once the component has been unmounted
    userName,       \* "" until a name has been confirmed
    messages,       \* the conversation log
    uiState,        \* "idle" | "thinking" | "generating"
    preview,        \* <<>> (null) or <<PreviewResponse>>
    assets,         \* <<>> (null) or <<assets of a completed job>>
    generatedBoard, \* <<>> (null) or <<GeneratedBoard>>
    sessionId,      \* "" (null) or the session id
    isEditingAfterPreview,
    pollingRef,     \* pollingRef.current: 0 (null) or the last interval id
    timers,         \* the interval ids that are set and not cleared
    jobs,           \* per startGeneration call: its closure and the service's job
    statusReqs,     \* generateStatus requests in flight
    previewReqs,    \* number of preview requests in flight
    ops             \* sends, starts, resets and timer firings so far

pureVars == <<tilesArgs, tilesResult, tilesSafety, layoutArgs, layoutResult>>
sessVars == <<mounted, userName, messages, uiState, preview, assets, generatedBoard,
              sessionId, isEditingAfterPreview, pollingRef, timers, jobs, statusReqs,
              previewReqs, ops>>
vars == <<pureVars, sessVars>>

\* ------------------------------------------------------------------------
\* Bounds of the model
\* ------------------------------------------------------------------------
MaxLib == 2         \* tiles in a library
MaxLimit == 3       \* requested number of tiles
MaxBalanceLib == 4   \* tiles in a library of single-category tiles
MaxCount == 27      \* entities on a board
MaxDim == 5         \* rows / cols given to the spiral directly

\* ------------------------------------------------------------------------
\* Helpers
\* ------------------------------------------------------------------------
Min(a, b) == IF a < b THEN a ELSE b
Max(a, b) == IF a > b THEN a ELSE b
Range(s) == {s[i] : i \in 1..Len(s)}
\* Array.prototype.includes
Includes(s, x) == \E i \in 1..Len(s) : s[i] = x
\* an optional value: <<>> is undefined/null, <<v>> is v
Some(v) == <<v>>
None == <<>>

\* ------------------------------------------------------------------------
\* ContentSelector: computeTiles
\* ------------------------------------------------------------------------
\* variant of the loop condition with a cap of 1000 sweeps
SafetyCapDoubled == 2 * 500

\* the bound of the safety counter: "safety < 500"
SafetyCap == 500
\* the "all categories" sentinel of the category filter
AllCategories == "ALL"

\* the rules object of a tile with no rule set ("rules: {}" or no rules)
NoRules == [ageMin |-> None, ageMax |-> None, gender |-> "", genderNot |-> "",
            sectorIn |-> None, contextIn |-> None]

\* a null profile, and the fields destructured from "profile || {}"
NullProfile == [null |-> TRUE]
EmptyProfile == [age |-> None, gender |-> "", sector |-> "", context |-> ""]
ProfileFields(profile) == IF profile = NullProfile THEN EmptyProfile ELSE profile

\* variant of the filter callback whose age comparisons are not strict
TileAllowedExclusiveAge(t, profile, selectedCategory) ==
    LET r == t.rules
        age == profile.age
    IN  /\ ~(r.ageMin # None /\ age # None /\ age[1] <= r.ageMin[1])
        /\ ~(r.ageMax # None /\ age # None /\ age[1] >= r.ageMax[1])
        /\ ~(r.gender # "" /\ profile.gender # "" /\ r.gender # profile.gender)
        /\ ~(r.genderNot # "" /\ profile.gender # "" /\ r.genderNot = profile.gender)
        /\ ~(r.sectorIn # None /\ profile.sector # ""
                /\ ~Includes(r.sectorIn[1], profile.sector))
        /\ ~(r.contextIn # None /\ profile.context # ""
                /\ ~Includes(r.contextIn[1], profile.context))
        /\ ~(selectedCategory # "" /\ selectedCategory # AllCategories
                /\ ~Includes(t.categories, selectedCategory))

\* the filter callback of computeTiles; strings are tested for truthiness,
\* so "" stands for an absent (or empty) string
TileAllowed(t, profile, selectedCategory) ==
    LET r == t.rules
        age == profile.age
    IN  /\ ~(r.ageMin # None /\ age # None /\ age[1] < r.ageMin[1])
        /\ ~(r.ageMax # None /\ age # None /\ age[1] > r.ageMax[1])
        /\ ~(r.gender # "" /\ profile.gender # "" /\ r.gender # profile.gender)
        /\ ~(r.genderNot # "" /\ profile.gender # "" /\ r.genderNot = profile.gender)
        /\ ~(r.sectorIn # None /\ profile.sector # ""
                /\ ~Includes(r.sectorIn[1], profile.sector))
        /\ ~(r.contextIn # None /\ profile.context # ""
                /\ ~Includes(r.contextIn[1], profile.context))
        /\ ~(selectedCategory # "" /\ selectedCategory # AllCategories
                /\ ~Includes(t.categories, selectedCategory))

\* variant of the filter in which a rule about an attribute the profile lacks
\* disqualifies the tile
AllowedTilesClosed(profile, tileLibrary, selectedCategory) ==
    SelectSeq(tileLibrary,
              LAMBDA t : /\ TileAllowed(t, profile, selectedCategory)
                         /\ (t.rules.ageMin # None \/ t.rules.ageMax # None)
                                => profile.age # None
                         /\ (t.rules.gender # "" \/ t.rules.genderNot # "")
                                => profile.gender # ""
                         /\ t.rules.sectorIn # None => profile.sector # ""
                         /\ t.rules.contextIn # None => profile.context # "")

\* variant of the filter that ignores selectedCategory
AllowedTilesAnyCategory(profile, tileLibrary, selectedCategory) ==
    SelectSeq(tileLibrary, LAMBDA t : TileAllowed(t, profile, ""))

AllowedTiles(profile, tileLibrary, selectedCategory) ==
    SelectSeq(tileLibrary, LAMBDA t : TileAllowed(t, profile, selectedCategory))

\* variant of the grouping that puts the tile seen last in front
RECURSIVE ByCatNewestFirst(_, _)
ByCatNewestFirst(allowed, c) ==
    IF allowed = <<>> THEN <<>>
    ELSE LET t == Head(allowed)
             occ == SelectSeq(t.categories, LAMBDA x : x = c)
         IN  ByCatNewestFirst(Tail(allowed), c) \o [i \in 1..Len(occ) |-> t]

\* byCat[c]: every allowed tile once per occurrence of c in its categories,
\* in library order
RECURSIVE ByCat(_, _)
ByCat(allowed, c) ==
    IF allowed = <<>> THEN <<>>
    ELSE LET t == Head(allowed)
             occ == SelectSeq(t.categories, LAMBDA x : x = c)
         IN  [i \in 1..Len(occ) |-> t] \o ByCat(Tail(allowed), c)

\* variant of the pass that takes every unpicked tile of a category before it
\* moves on to the next category
RECURSIVE SweepGreedy(_, _, _, _, _)
SweepGreedy(i, st, allowed, categoryOrder, limit) ==
    IF i > Len(categoryOrder) THEN st
    ELSE LET pool == SelectSeq(ByCat(allowed, categoryOrder[i]),
                               LAMBDA t : t.key \notin st.picked)
             take == SubSeq(pool, 1, Min(Len(pool), Max(limit - Len(st.result), 1)))
             st2 == [result |-> st.result \o take,
                     picked |-> st.picked \cup { take[j].key : j \in 1..Len(take) }]
         IN  IF Len(st2.result) >= limit THEN st2
             ELSE SweepGreedy(i + 1, st2, allowed, categoryOrder, limit)

\* one pass of "for (const c of categoryOrder)" from index i on
RECURSIVE Sweep(_, _, _, _, _)
Sweep(i, st, allowed, categoryOrder, limit) ==
    IF i > Len(categoryOrder) THEN st
    ELSE LET pool == SelectSeq(ByCat(allowed, categoryOrder[i]),
                               LAMBDA t : t.key \notin st.picked)
             st2 == IF pool # <<>>
                    THEN [result |-> Append(st.result, pool[1]),
                          picked |-> st.picked \cup {pool[1].key}]
                    ELSE st
         IN  IF Len(st2.result) >= limit THEN st2
             ELSE Sweep(i + 1, st2, allowed, categoryOrder, limit)

\* the while loop with its safety counter: BalanceN runs at most n further
\* iterations of the loop body from st (the n iterations are split in two halves,
\* which keeps the evaluation shallow); the loop as a whole is BalanceN(st, SafetyCap).
\* The loop body is a function of st alone and only ever adds to result and
\* picked, so when the first half of the iterations has left st as it was,
\* the second half leaves it as it was too and is not evaluated.
RECURSIVE BalanceN(_, _, _, _, _)
BalanceN(st, n, allowed, categoryOrder, limit) ==
    IF n = 0 \/ ~(Len(st.result) < Min(limit, Len(allowed))) THEN st
    ELSE IF n = 1 THEN Sweep(1, st, allowed, categoryOrder, limit)
    ELSE LET half == BalanceN(st, n \div 2, allowed, categoryOrder, limit)
         IN  IF half = st THEN st
             ELSE BalanceN(half, n - (n \div 2), allowed, categoryOrder, limit)

Balance(st, allowed, categoryOrder, limit) ==
    BalanceN(st, SafetyCap, allowed, categoryOrder, limit)

\* "for (const t of allowed)" of the fallback fill, from index i on
RECURSIVE FillFrom(_, _, _, _)
FillFrom(i, st, allowed, limit) ==
    IF i > Len(allowed) THEN st
    ELSE LET t == allowed[i]
             st2 == IF t.key \notin st.picked
                    THEN [result |-> Append(st.result, t),
                          picked |-> st.picked \cup {t.key}]
                    ELSE st
         IN  IF Len(st2.result) >= limit THEN st2
             ELSE FillFrom(i + 1, st2, allowed, limit)

\* variant without the fallback pass
FallbackSkipped(st, allowed, limit) == st

\* variant of the fallback that fills every remaining slot, reading past the
\* end of allowed when the pool is short
FallbackPadded(st, allowed, limit) ==
    LET f == IF Len(st.result) < limit THEN FillFrom(1, st, allowed, limit) ELSE st
    IN  [f EXCEPT !.result =
            @ \o [i \in 1..(limit - Len(@)) |->
                     [key |-> "undefined", categories |-> <<>>, rules |-> NoRules]]]

\* variant of the fallback that walks allowed from its end
FallbackNewestFirst(st, allowed, limit) ==
    IF Len(st.result) < limit
    THEN FillFrom(1, st, [i \in 1..Len(allowed) |-> allowed[Len(allowed) + 1 - i]], limit)
    ELSE st

\* if (result.length < limit) { for (const t of allowed) ... }
Fallback(st, allowed, limit) ==
    IF Len(st.result) < limit THEN FillFrom(1, st, allowed, limit) ELSE st

\* variant in which picked outlives the call: the keys returned by the call
\* before are still marked
CarriedAccumulator ==
    [result |-> <<>>,
     picked |-> IF tilesResult = <<>> THEN {}
                ELSE { tilesResult[1][i].key : i \in 1..Len(tilesResult[1]) }]

\* const result = []; const picked = new Set(): local to the call
FreshAccumulator == [result |-> <<>>, picked |-> {}]

computeTiles(profile, limit, tileLibrary, categoryOrder, selectedCategory) ==
    LET allowed == AllowedTiles(ProfileFields(profile), tileLibrary, selectedCategory)
        balanced == Balance(FreshAccumulator,
                            allowed, categoryOrder, limit)
        filled == Fallback(balanced, allowed, limit)
    IN  SubSeq(filled.result, 1, Min(limit, Len(filled.result)))

\* the number of iterations the while loop runs from st when at most n are
\* left before the cap: none when its condition fails, all n when an iteration
\* leaves st as it was (the condition then never changes)
RECURSIVE SafetyRun(_, _, _, _, _)
SafetyRun(st, n, allowed, categoryOrder, limit) ==
    IF n = 0 \/ ~(Len(st.result) < Min(limit, Len(allowed))) THEN 0
    ELSE IF n = 1 THEN 1
    ELSE LET half == BalanceN(st, n \div 2, allowed, categoryOrder, limit)
         IN  IF half = st THEN n
             ELSE SafetyRun(st, n \div 2, allowed, categoryOrder, limit)
                  + SafetyRun(half, n - (n \div 2), allowed, categoryOrder, limit)

\* the value of the safety counter when the while loop of computeTiles ends
SafetyAtExit(profile, limit, tileLibrary, categoryOrder, selectedCategory) ==
    SafetyRun(FreshAccumulator,
              SafetyCap,
              AllowedTiles(ProfileFields(profile), tileLibrary, selectedCategory),
              categoryOrder, limit)

\* ------------------------------------------------------------------------
\* LayoutEngine: calculateBoardLayout, generateAsymmetricSpiralPositions
\* ------------------------------------------------------------------------
ContentWidth == 730
ContentHeight == 1003
MinGap == 16
MaxGap == 30

\* the sequence <<f(a), f(a+1), ..., f(b)>> of an ascending for loop
Up(a, b, F(_)) == [k \in 1..(IF b >= a THEN b - a + 1 ELSE 0) |-> F(a + k - 1)]
\* the sequence <<f(a), f(a-1), ..., f(b)>> of a descending for loop
Down(a, b, F(_)) == [k \in 1..(IF a >= b THEN a - b + 1 ELSE 0) |-> F(a - k + 1)]
\* pushes guarded by "positions.length < count": the candidates that fit
Take(s, n) == SubSeq(s, 1, Min(Len(s), Max(n, 0)))

\* variant of Phase 1 that lists the corners row by row
CornersRowMajor(rows, cols) ==
    SelectSeq(<< <<0, 0>>, <<0, cols - 1>>, <<rows - 1, 0>>, <<rows - 1, cols - 1>> >>,
              LAMBDA c : c[1] < rows /\ c[2] < cols)

\* Phase 1: the four corners, pushed while slots remain
Corners(rows, cols) ==
    SelectSeq(<< <<0, 0>>, <<0, cols - 1>>, <<rows - 1, cols - 1>>, <<rows - 1, 0>> >>,
              LAMBDA c : c[1] < rows /\ c[2] < cols)

\* variant of Phase 2 whose loops run over the corners as well
EdgesWithCorners(rows, cols) ==
       Up(0, cols - 1, LAMBDA col : <<0, col>>)
    \o Up(0, rows - 1, LAMBDA row : <<row, cols - 1>>)
    \o Down(cols - 1, 0, LAMBDA col : <<rows - 1, col>>)
    \o Down(rows - 1, 0, LAMBDA row : <<row, 0>>)

\* variant of Phase 2 that walks the outer edges the other way round
EdgesCounterClockwise(rows, cols) ==
       Up(1, rows - 2, LAMBDA row : <<row, 0>>)
    \o Up(1, cols - 2, LAMBDA col : <<rows - 1, col>>)
    \o Down(rows - 2, 1, LAMBDA row : <<row, cols - 1>>)
    \o Down(cols - 2, 1, LAMBDA col : <<0, col>>)

\* Phase 2: the outer edges without the corners
Edges(rows, cols) ==
       Up(1, cols - 2, LAMBDA col : <<0, col>>)
    \o Up(1, rows - 2, LAMBDA row : <<row, cols - 1>>)
    \o Down(cols - 2, 1, LAMBDA col : <<rows - 1, col>>)
    \o Down(rows - 2, 1, LAMBDA row : <<row, 0>>)

\* one inner ring of Phase 3
Ring(rows, cols, layer) ==
    LET startRow == layer
        endRow == rows - layer - 1
        startCol == layer
        endCol == cols - layer - 1
    IN     Up(startCol, endCol, LAMBDA col : <<startRow, col>>)
        \o Up(startRow + 1, endRow, LAMBDA row : <<row, endCol>>)
        \o (IF endRow > startRow
            THEN Down(endCol - 1, startCol, LAMBDA col : <<endRow, col>>)
            ELSE <<>>)
        \o (IF endCol > startCol
            THEN Down(endRow - 1, startRow + 1, LAMBDA row : <<row, startCol>>)
            ELSE <<>>)

\* Phase 3: while (positions.length < count && layer < Math.min(rows, cols) / 2)
RECURSIVE Interior(_, _, _, _, _)
Interior(positions, layer, rows, cols, count) ==
    IF Len(positions) < count /\ 2 * layer < Min(rows, cols)
    THEN IF layer > rows - layer - 1 \/ layer > cols - layer - 1
         THEN positions
         ELSE Interior(positions \o Take(Ring(rows, cols, layer), count - Len(positions)),
                       layer + 1, rows, cols, count)
    ELSE positions

generateAsymmetricSpiralPositions(rows, cols, count) ==
    LET p1 == Take(Corners(rows, cols), count)
        p2 == p1 \o Take(Edges(rows, cols), count - Len(p1))
    IN  Interior(p2, 1, rows, cols, count)

\* variant of the dimension table that reads each entry as rows x cols
GridDimsRowsFirst(count) ==
    IF count <= 4 THEN [cols |-> 2, rows |-> 2]
    ELSE IF count <= 6 THEN [cols |-> 2, rows |-> 3]
    ELSE IF count <= 9 THEN [cols |-> 3, rows |-> 3]
    ELSE IF count <= 12 THEN [cols |-> 3, rows |-> 4]
    ELSE IF count <= 16 THEN [cols |-> 4, rows |-> 4]
    ELSE [cols |-> (count + 4) \div 5, rows |-> 5]

\* variant of the dimension table that rounds the number of rows down
GridDimsFloorRows(count) ==
    IF count <= 4 THEN [cols |-> 2, rows |-> 2]
    ELSE IF count <= 6 THEN [cols |-> 3, rows |-> 2]
    ELSE IF count <= 9 THEN [cols |-> 3, rows |-> 3]
    ELSE IF count <= 12 THEN [cols |-> 4, rows |-> 3]
    ELSE IF count <= 16 THEN [cols |-> 4, rows |-> 4]
    ELSE [cols |-> 5, rows |-> count \div 5]

\* the if/else chain choosing cols and rows
GridDims(count) ==
    IF count <= 4 THEN [cols |-> 2, rows |-> 2]
    ELSE IF count <= 6 THEN [cols |-> 3, rows |-> 2]
    ELSE IF count <= 9 THEN [cols |-> 3, rows |-> 3]
    ELSE IF count <= 12 THEN [cols |-> 4, rows |-> 3]
    ELSE IF count <= 16 THEN [cols |-> 4, rows |-> 4]
    ELSE [cols |-> 5, rows |-> (count + 4) \div 5]

\* variant of the gap without the clamp to [minGap, maxGap]
GapUnclamped(cols, rows) ==
    LET m == Max(cols, rows)
    IN  (2 * 6 * Min(ContentWidth, ContentHeight) + 100 * m) \div (200 * m)

\* Math.round(Math.min(contentWidth, contentHeight) / Math.max(cols, rows) * 0.06),
\* then clamped to [minGap, maxGap]; round(x) = floor(x + 1/2), exact on rationals
GapFor(cols, rows) ==
    LET m == Max(cols, rows)
        raw == (2 * 6 * Min(ContentWidth, ContentHeight) + 100 * m) \div (200 * m)
    IN  Max(MinGap, Min(MaxGap, raw))

calculateBoardLayout(count) ==
    LET d == GridDims(count)
        gap == GapFor(d.cols, d.rows)
        maxCellWidth == (ContentWidth - gap * (d.cols - 1)) \div d.cols
        maxCellHeight == (ContentHeight - gap * (d.rows - 1)) \div d.rows
    IN  [gridSize |-> d.cols, rows |-> d.rows, cols |-> d.cols,
         baseCellSize |-> Min(maxCellWidth, maxCellHeight), gap |-> gap,
         spiralPositions |-> generateAsymmetricSpiralPositions(d.rows, d.cols, count)]

\* ------------------------------------------------------------------------
\* The state of the NewBoard component right after construction
\* ------------------------------------------------------------------------
Agent(text) == [role |-> "agent", text |-> text]
User(text) == [role |-> "user", text |-> text]

\* createInitialAgentMessage and the useState initial values
SessionFresh(name) ==
    /\ mounted = TRUE
    /\ userName = name
    /\ messages = <<Agent("greeting")>>
    /\ uiState = "idle"
    /\ preview = None
    /\ assets = None
    /\ generatedBoard = None
    /\ sessionId = ""
    /\ isEditingAfterPreview = FALSE
    /\ pollingRef = 0
    /\ timers = {}
    /\ jobs = <<>>
    /\ statusReqs = {}
    /\ previewReqs = 0
    /\ ops = 0

PureIdle ==
    /\ tilesArgs = None
    /\ tilesResult = None
    /\ tilesSafety = None
    /\ layoutArgs = None
    /\ layoutResult = None

\* ------------------------------------------------------------------------
\* SpecTiles: computeTiles applied to inputs drawn from bounded sets
\* ------------------------------------------------------------------------
KeyNames == <<"k1", "k2", "k3", "k4", "k5", "k6">>

\* what a tile of the library may look like besides its key
TileShapes ==
    { [categories |-> <<"a">>, rules |-> NoRules],
      [categories |-> <<"b">>, rules |-> [NoRules EXCEPT !.genderNot = "g1"]],
      [categories |-> <<"a", "b">>, rules |-> [NoRules EXCEPT !.ageMin = Some(13)]],
      [categories |-> <<"z">>, rules |-> [NoRules EXCEPT !.sectorIn = Some(<<"s1">>)]],
      [categories |-> <<>>, rules |-> [NoRules EXCEPT !.ageMax = Some(12)]],
      [categories |-> <<"b", "b">>, rules |-> [NoRules EXCEPT !.gender = "g1",
                                                 !.contextIn = Some(<<"c2">>)]] }

\* libraries of at most MaxLib tiles with pairwise-distinct keys
Libraries ==
    UNION { { [i \in 1..n |-> [key |-> KeyNames[i], categories |-> f[i].categories,
                               rules |-> f[i].rules]] : f \in [1..n -> TileShapes] }
            : n \in 0..MaxLib }

\* libraries of more than MaxLib tiles, each in one category and without rules
BalanceLibraries ==
    UNION { { [i \in 1..n |-> [key |-> KeyNames[i], categories |-> <<f[i]>>,
                               rules |-> NoRules]] : f \in [1..n -> {"a", "b"}] }
            : n \in (MaxLib + 1)..MaxBalanceLib }

Profiles ==
    { NullProfile, EmptyProfile,
      [age |-> Some(12), gender |-> "g2", sector |-> "s1", context |-> "c1"],
      [age |-> Some(13), gender |-> "g1", sector |-> "s2", context |-> ""] }

CategoryOrders == { <<"a", "b">>, <<"b", "a">>, <<>> }
CategoryFilters == { "", AllCategories, "a" }

InitTiles ==
    /\ tilesArgs \in { Some([profile |-> p, limit |-> l, tileLibrary |-> lib,
                             categoryOrder |-> o, selectedCategory |-> f]) :
                       p \in Profiles, l \in 0..MaxLimit, lib \in Libraries,
                       o \in CategoryOrders, f \in CategoryFilters }
                 \cup
                     { Some([profile |-> EmptyProfile, limit |-> l, tileLibrary |-> lib,
                             categoryOrder |-> o, selectedCategory |-> ""]) :
                       l \in 0..MaxBalanceLib, lib \in BalanceLibraries,
                       o \in CategoryOrders }
    /\ tilesResult = None
    /\ tilesSafety = None
    /\ layoutArgs = None
    /\ layoutResult = None
    /\ SessionFresh("")

CallComputeTiles ==
    /\ tilesArgs # None
    /\ tilesResult = None
    /\ tilesSafety = None
    /\ tilesResult' = Some(computeTiles(tilesArgs[1].profile, tilesArgs[1].limit,
                                        tilesArgs[1].tileLibrary,
                                        tilesArgs[1].categoryOrder,
                                        tilesArgs[1].selectedCategory))
    /\ tilesSafety' = Some(SafetyAtExit(tilesArgs[1].profile, tilesArgs[1].limit,
                                        tilesArgs[1].tileLibrary,
                                        tilesArgs[1].categoryOrder,
                                        tilesArgs[1].selectedCategory))
    /\ UNCHANGED <<tilesArgs, layoutArgs, layoutResult, sessVars>>

\* the same call once more (useMemo recomputing with equal dependencies)
RepeatComputeTiles ==
    /\ tilesArgs # None
    /\ Len(tilesResult) = 1
    /\ tilesResult' = Append(tilesResult,
                             computeTiles(tilesArgs[1].profile, tilesArgs[1].limit,
                                          tilesArgs[1].tileLibrary,
                                          tilesArgs[1].categoryOrder,
                                          tilesArgs[1].selectedCategory))
    /\ tilesSafety' = Append(tilesSafety,
                             SafetyAtExit(tilesArgs[1].profile, tilesArgs[1].limit,
                                          tilesArgs[1].tileLibrary,
                                          tilesArgs[1].categoryOrder,
                                          tilesArgs[1].selectedCategory))
    /\ UNCHANGED <<tilesArgs, layoutArgs, layoutResult, sessVars>>

NextTiles == CallComputeTiles \/ RepeatComputeTiles

SpecTiles == InitTiles /\ [][NextTiles]_vars

\* ------------------------------------------------------------------------
\* Spec: the NewBoard component
\*
\* Texts are tokens; what the code asks of a text is whether it contains one
\* of three Hebrew markers, which the three sets below answer:
\*   "yotser"        (text.includes of the progress-line replacement),
\*   "yotser tmuna"  (text.includes of the filter at completion),
\*   "hevanti"       (text.includes that shows the start / edit buttons).
\* Timestamps (ts) are left out: nothing reads them.
\* ------------------------------------------------------------------------
MaxOps == 5         \* sends, starts, resets and timer firings in one run

UserTexts == { "u_plain", "u_yotser_tmuna" }
Summaries == { "s_hevanti", "s_question" }
ProgressTexts == << "p_begin", "p_yotser_tmuna" >>
HasYotser == { "u_yotser_tmuna", "p_yotser_tmuna" }
HasYotserTmuna == { "u_yotser_tmuna", "p_yotser_tmuna" }
HasHevanti == { "s_hevanti" }

SessionIds == { "sid1" }
EntityLists == { <<"x", "y">>, <<"y", "z", "x">> }
FileLists == { <<"f1", "f2", "f3">> }
TestImageCounts == { 2 }
Title == "title"

\* the PreviewResponse for a list of entities
PreviewOf(entities, summary, sid) ==
    [parsed |-> [entities |-> entities, layout |-> "layout", topic |-> "topic"],
     profile |-> "profile", summary |-> summary, session_id |-> sid]

LastMsg == messages[Len(messages)]

\* the condition under which the start and edit buttons are rendered
PreviewButtonsShown ==
    /\ LastMsg.role = "agent"
    /\ preview # None
    /\ uiState = "idle"
    /\ assets = None
    /\ LastMsg.text \in HasHevanti

\* shouldShowInput of the input area
ShouldShowInput ==
    uiState # "generating" /\ (~PreviewButtonsShown \/ isEditingAfterPreview)

\* handleNameConfirm with a non-blank pending name
HandleNameConfirm ==
    /\ mounted
    /\ userName = ""
    /\ userName' = "u"
    /\ UNCHANGED <<mounted, messages, uiState, preview, assets, generatedBoard,
                   sessionId, isEditingAfterPreview, pollingRef, timers, jobs,
                   statusReqs, previewReqs, ops, pureVars>>

\* the input field and the send button are rendered and not disabled
InputEnabled == ShouldShowInput /\ uiState = "idle"

\* send() without a user name: the name modal opens and nothing else happens
SendWithoutName ==
    /\ mounted
    /\ ShouldShowInput
    /\ uiState = "idle"
    /\ userName = ""
    /\ UNCHANGED <<mounted, userName, messages, uiState, preview, assets,
                   generatedBoard, sessionId, isEditingAfterPreview, pollingRef,
                   timers, jobs, statusReqs, previewReqs, ops, pureVars>>

\* send() with a non-blank input, up to the await of api.preview
Send(text) ==
    /\ mounted
    /\ ShouldShowInput
    /\ uiState = "idle"
    /\ userName # ""
    /\ ops < MaxOps
    /\ messages' = Append(messages, User(text))
    /\ isEditingAfterPreview' = FALSE
    /\ uiState' = "thinking"
    /\ previewReqs' = previewReqs + 1
    /\ ops' = ops + 1
    /\ UNCHANGED <<mounted, userName, preview, assets, generatedBoard, sessionId,
                   pollingRef, timers, jobs, statusReqs, pureVars>>

\* send() after api.preview resolved
PreviewResolved(p) ==
    /\ previewReqs > 0
    /\ previewReqs' = previewReqs - 1
    /\ IF mounted
       THEN /\ preview' = Some(p)
            /\ sessionId' = p.session_id
            /\ messages' = Append(messages, Agent(p.summary))
            /\ uiState' = "idle"
       ELSE UNCHANGED <<preview, sessionId, messages, uiState>>
    /\ UNCHANGED <<mounted, userName, assets, generatedBoard, isEditingAfterPreview,
                   pollingRef, timers, jobs, statusReqs, ops, pureVars>>

\* variant of the catch block of send that also drops the stored preview
PreviewRejectedDropsPreview ==
    /\ previewReqs > 0
    /\ previewReqs' = previewReqs - 1
    /\ IF mounted
       THEN /\ messages' = Append(messages, Agent("error_preview"))
            /\ uiState' = "idle"
            /\ preview' = None
       ELSE UNCHANGED <<messages, uiState, preview>>
    /\ UNCHANGED <<mounted, userName, assets, generatedBoard, sessionId,
                   isEditingAfterPreview, pollingRef, timers, jobs, statusReqs,
                   ops, pureVars>>

\* send() after api.preview rejected
PreviewRejected ==
    /\ previewReqs > 0
    /\ previewReqs' = previewReqs - 1
    /\ IF mounted
       THEN /\ messages' = Append(messages, Agent("error_preview"))
            /\ uiState' = "idle"
       ELSE UNCHANGED <<messages, uiState>>
    /\ UNCHANGED <<mounted, userName, preview, assets, generatedBoard, sessionId,
                   isEditingAfterPreview, pollingRef, timers, jobs, statusReqs,
                   ops, pureVars>>

\* the closure of one startGeneration call and the job the service runs for it
NewJob(p) ==
    [preview |-> p,             \* preview as captured by the closure
     submitted |-> p.parsed.entities,   \* parsed.entities of the generateStart request
     phase |-> "starting",      \* starting | rejected | polling
     lastMessage |-> "",        \* let lastMessage = ""
     status |-> "none",         \* the service's status of the job
     message |-> "",            \* the service's progress message
     files |-> None,            \* the service's assets (None: no assets object)
     polls |-> 0,               \* status requests sent for the job
     resolved |-> 0,            \* status responses processed for the job
     bound |-> 0,               \* times the completion branch has run
     terminal |-> FALSE,        \* the completion or the error branch has run
     progressLines |-> 0,       \* times the progress update added or replaced a line
     changes |-> 0,             \* message changes among the responses processed
     seen |-> None,             \* message of the response processed last
     firstBound |-> None,       \* what the completion branch set when it first ran
     stale |-> FALSE,           \* startNewConversation has run since the job started
     late |-> FALSE]            \* the timer has fired once after ops ran out

\* startGeneration is accepted: its button is rendered and its guard passes
StartAccepted ==
    /\ mounted
    /\ PreviewButtonsShown
    /\ preview # None /\ uiState = "idle" /\ sessionId # ""

\* startGeneration() up to the await of api.generateStart
StartGeneration ==
    /\ StartAccepted
    /\ ops < MaxOps
    /\ ops' = ops + 1
    /\ uiState' = "generating"
    /\ messages' = Append(messages, Agent("starting"))
    /\ jobs' = Append(jobs, NewJob(preview[1]))
    /\ UNCHANGED <<mounted, userName, preview, assets, generatedBoard, sessionId,
                   isEditingAfterPreview, pollingRef, timers, statusReqs, previewReqs,
                   pureVars>>

\* startPolling(jobId): the interval is set and stored in pollingRef
startPolling(k) ==
    /\ pollingRef' = k
    /\ timers' = timers \cup {k}

\* startGeneration() after api.generateStart resolved: the service has accepted
\* the job, the client starts to poll
GenerateStartResolved(k, sid) ==
    /\ k \in 1..Len(jobs)
    /\ jobs[k].phase = "starting"
    /\ jobs' = [jobs EXCEPT ![k].phase = "polling", ![k].status = "in_progress",
                            ![k].message = ProgressTexts[1]]
    /\ startPolling(k)
    /\ sessionId' = IF mounted THEN sid ELSE sessionId
    /\ UNCHANGED <<mounted, userName, messages, uiState, preview, assets,
                   generatedBoard, isEditingAfterPreview, statusReqs, previewReqs,
                   ops, pureVars>>

\* variant of the catch block of startGeneration that reports the error and
\* leaves uiState as it is
GenerateStartRejectedStaysBusy(k) ==
    /\ k \in 1..Len(jobs)
    /\ jobs[k].phase = "starting"
    /\ jobs' = [jobs EXCEPT ![k].phase = "rejected"]
    /\ messages' = IF mounted THEN Append(messages, Agent("error_start")) ELSE messages
    /\ UNCHANGED <<mounted, userName, uiState, preview, assets, generatedBoard,
                   sessionId, isEditingAfterPreview, pollingRef, timers, statusReqs,
                   previewReqs, ops, pureVars>>

\* startGeneration() after api.generateStart rejected
GenerateStartRejected(k) ==
    /\ k \in 1..Len(jobs)
    /\ jobs[k].phase = "starting"
    /\ jobs' = [jobs EXCEPT ![k].phase = "rejected"]
    /\ IF mounted
       THEN /\ messages' = Append(messages, Agent("error_start"))
            /\ uiState' = "idle"
       ELSE UNCHANGED <<messages, uiState>>
    /\ UNCHANGED <<mounted, userName, preview, assets, generatedBoard, sessionId,
                   isEditingAfterPreview, pollingRef, timers, statusReqs, previewReqs,
                   ops, pureVars>>

\* --- the generation service (external): one job per accepted request ---

\* the assets object a completed job may carry: none at all, one without
\* image_files, or one with one file per submitted entity
AssetsFor(entities) ==
    { None, Some([pdf_url |-> "pdf", png_url |-> "png", image_files |-> None]) }
    \cup { Some([pdf_url |-> "pdf", png_url |-> "png",
                 image_files |-> Some(SubSeq(fl, 1, Len(entities)))]) : fl \in FileLists }

IndexOfText(text) == CHOOSE i \in 1..Len(ProgressTexts) : ProgressTexts[i] = text

\* what the service may report for a job when it is asked next: a job in
\* progress may have moved on, completed or failed; a finished job stays as it is
ServiceReach(job) ==
    IF job.status # "in_progress"
    THEN { [status |-> job.status, message |-> job.message, assets |-> job.files] }
    ELSE LET later == { ProgressTexts[i] : i \in IndexOfText(job.message)..Len(ProgressTexts) }
         IN  { [status |-> "in_progress", message |-> m, assets |-> None] : m \in later }
             \cup { [status |-> "completed", message |-> "p_done", assets |-> a] :
                        a \in AssetsFor(job.submitted) }
             \cup { [status |-> "error", message |-> m, assets |-> None] :
                        m \in {job.message, "p_error"} }

\* --- polling ---

\* the interval of job k fires: api.generateStatus(jobId) is sent; the service
\* answers with its snapshot s of the job, which travels back
Tick(k, s) ==
    /\ k \in timers
    /\ ops < MaxOps
    /\ s \in ServiceReach(jobs[k])
    /\ ops' = ops + 1
    /\ jobs' = [jobs EXCEPT ![k].status = s.status, ![k].message = s.message,
                            ![k].files = s.assets, ![k].polls = @ + 1]
    /\ statusReqs' = statusReqs \cup
           { [job |-> k, n |-> ops + 1, status |-> s.status,
              message |-> s.message, assets |-> s.assets] }
    /\ UNCHANGED <<mounted, userName, messages, uiState, preview, assets,
                   generatedBoard, sessionId, isEditingAfterPreview, pollingRef,
                   timers, previewReqs, pureVars>>

\* variant of the catch block that gives up: it stops the timer of the job and
\* reports the failure
PollRejectedStops(r) ==
    /\ r \in statusReqs
    /\ statusReqs' = statusReqs \ {r}
    /\ timers' = timers \ {r.job}
    /\ messages' = IF mounted THEN Append(messages, Agent("error_poll")) ELSE messages
    /\ uiState' = IF mounted THEN "idle" ELSE uiState
    /\ UNCHANGED <<mounted, userName, preview, assets, generatedBoard, sessionId,
                   isEditingAfterPreview, pollingRef, jobs, previewReqs, ops, pureVars>>

\* api.generateStatus rejected (transport error or non-2xx): the catch block
PollRejected(r) ==
    /\ r \in statusReqs
    /\ statusReqs' = statusReqs \ {r}
    /\ UNCHANGED <<mounted, userName, messages, uiState, preview, assets,
                   generatedBoard, sessionId, isEditingAfterPreview, pollingRef,
                   timers, jobs, previewReqs, ops, pureVars>>

Front(s) == SubSeq(s, 1, Len(s) - 1)

\* the setMessages updater of the progress update
ProgressLine(m, text) ==
    IF m # <<>> /\ m[Len(m)].role = "agent" /\ m[Len(m)].text \in HasYotser
    THEN Append(Front(m), Agent(text))
    ELSE Append(m, Agent(text))

\* variant of the progress update without the comparison to lastMessage
ProgressAlways(closure, r) == TRUE

\* "Update progress message if changed"
ProgressChanged(closure, r) == r.message # closure.lastMessage

\* the URL bound to an entity: apiBase + "/assets/" + image_files[idx]
AssetUrl(files, idx) ==
    <<"assets", IF idx \in 1..Len(files) THEN files[idx] ELSE "undefined">>

\* preview.parsed.entities.forEach((entity, idx) => imageMap[entity] = ...)
RECURSIVE ImageMapFrom(_, _, _, _)
ImageMapFrom(idx, map, entities, files) ==
    IF idx > Len(entities) THEN map
    ELSE ImageMapFrom(idx + 1, (entities[idx] :> AssetUrl(files, idx)) @@ map,
                      entities, files)

\* variant binding against the preview of the session at completion time
BindingPreviewCurrent(closure) == IF preview # None THEN preview[1] ELSE closure.preview

\* the preview the completion branch binds against: the one its closure captured
BindingPreview(closure) == closure.preview

\* variant of the board construction that keeps the entities of the board on
\* display in front of the new ones
BuildBoardMerged(closure, files) ==
    LET p == BindingPreview(closure)
        kept == IF generatedBoard # None THEN generatedBoard[1].entities ELSE <<>>
    IN  [title |-> Title,
         entities |-> kept \o p.parsed.entities,
         images |-> ImageMapFrom(1, <<>>, p.parsed.entities, files),
         layout |-> p.parsed.layout]

\* setGeneratedBoard({ title, entities, images: imageMap, layout })
BuildBoard(closure, files) ==
    LET p == BindingPreview(closure) IN
    [title |-> Title,
     entities |-> p.parsed.entities,
     images |-> ImageMapFrom(1, <<>>, p.parsed.entities, files),
     layout |-> p.parsed.layout]

\* variant of the placement that reads a spiral position as [col, row]
RECURSIVE PlaceEntitiesTransposed(_, _, _, _)
PlaceEntitiesTransposed(idx, grid, board, L) ==
    IF idx > Len(board.entities) THEN grid
    ELSE LET entity == board.entities[idx]
             placed ==
                 IF idx <= Len(L.spiralPositions)
                 THEN LET cell == <<L.spiralPositions[idx][2], L.spiralPositions[idx][1]>> IN
                      IF cell[1] < L.rows /\ cell[2] < L.cols
                      THEN [grid EXCEPT ![cell] =
                                Some([entity |-> entity, image |-> board.images[entity]])]
                      ELSE grid
                 ELSE grid
         IN  PlaceEntitiesTransposed(idx + 1, placed, board, L)

\* generatedBoard.entities.forEach((entity, idx) => grid[row][col] = ...), from
\* index idx on; L is the layout calculateBoardLayout gave for the board
RECURSIVE PlaceEntities(_, _, _, _)
PlaceEntities(idx, grid, board, L) ==
    IF idx > Len(board.entities) THEN grid
    ELSE LET entity == board.entities[idx]
             placed ==
                 IF idx <= Len(L.spiralPositions)
                 THEN LET cell == L.spiralPositions[idx] IN
                      IF cell[1] < L.rows /\ cell[2] < L.cols
                      THEN [grid EXCEPT ![cell] =
                                Some([entity |-> entity, image |-> board.images[entity]])]
                      ELSE grid
                 ELSE grid
         IN  PlaceEntities(idx + 1, placed, board, L)

\* the grid of the board display: per cell null or the entity and image shown
RenderGrid(board) ==
    LET L == calculateBoardLayout(Len(board.entities))
        empty == [cell \in (0..(L.rows - 1)) \X (0..(L.cols - 1)) |-> None]
    IN  PlaceEntities(1, empty, board, L)

\* the setMessages updater of the completion branch
ReadyMessages(m) ==
    Append(SelectSeq(m, LAMBDA msg : msg.text \notin HasYotserTmuna), Agent("ready"))

\* clearInterval(pollingRef.current)
ClearPollingRef == timers \ {pollingRef}

\* api.generateStatus resolved: the body of the interval callback
PollResolved(r) ==
    /\ r \in statusReqs
    /\ statusReqs' = statusReqs \ {r}
    /\ LET k == r.job
           closure == jobs[k]
           changed == ProgressChanged(closure, r)
           m1 == IF changed THEN ProgressLine(messages, r.message) ELSE messages
           done == r.status = "completed" /\ r.assets # None
           failed == ~done /\ r.status = "error"
           board == IF r.assets[1].image_files # None
                    THEN Some(BuildBoard(closure, r.assets[1].image_files[1]))
                    ELSE generatedBoard
       IN  /\ jobs' = [jobs EXCEPT
                  ![k].lastMessage = IF changed THEN r.message ELSE @,
                  ![k].progressLines = IF changed THEN @ + 1 ELSE @,
                  ![k].changes = IF closure.seen # Some(r.message) THEN @ + 1 ELSE @,
                  ![k].seen = Some(r.message),
                  ![k].resolved = @ + 1,
                  ![k].bound = IF done THEN @ + 1 ELSE @,
                  ![k].firstBound = IF mounted /\ done /\ @ = None
                                    THEN Some([assets |-> r.assets, board |-> board])
                                    ELSE @,
                  ![k].terminal = @ \/ done \/ failed]
           /\ timers' = IF done \/ failed THEN ClearPollingRef ELSE timers
           /\ IF ~mounted
              THEN UNCHANGED <<messages, assets, generatedBoard, uiState>>
              ELSE IF done
              THEN /\ assets' = r.assets
                   /\ generatedBoard' = board
                   /\ messages' = ReadyMessages(m1)
                   /\ uiState' = "idle"
              ELSE IF failed
              THEN /\ messages' = Append(m1, Agent(r.message))
                   /\ uiState' = "idle"
                   /\ UNCHANGED <<assets, generatedBoard>>
              ELSE /\ messages' = m1
                   /\ UNCHANGED <<assets, generatedBoard, uiState>>
    /\ UNCHANGED <<mounted, userName, preview, sessionId, isEditingAfterPreview,
                   pollingRef, previewReqs, ops, pureVars>>

\* --- the remaining handlers ---

\* the edit button next to the start button
EditPreview ==
    /\ mounted
    /\ PreviewButtonsShown
    /\ preview' = None
    /\ isEditingAfterPreview' = TRUE
    /\ messages' = Append(messages, Agent("what_to_change"))
    /\ UNCHANGED <<mounted, userName, uiState, assets, generatedBoard, sessionId,
                   pollingRef, timers, jobs, statusReqs, previewReqs, ops, pureVars>>

\* startNewConversation: its button is rendered below a generated board
startNewConversation ==
    /\ mounted
    /\ generatedBoard # None
    /\ ops < MaxOps
    /\ ops' = ops + 1
    /\ messages' = <<Agent("greeting")>>
    /\ preview' = None
    /\ assets' = None
    /\ generatedBoard' = None
    /\ isEditingAfterPreview' = FALSE
    /\ uiState' = "idle"
    /\ sessionId' = ""
    /\ jobs' = [k \in DOMAIN jobs |-> [jobs[k] EXCEPT !.stale = TRUE]]
    /\ UNCHANGED <<mounted, userName, pollingRef, timers, statusReqs,
                   previewReqs, pureVars>>

\* generateTestBoard with testImageCount = n (the quick-test panel)
generateTestBoard(n) ==
    /\ mounted
    /\ generatedBoard = None
    /\ LET entities == [i \in 1..n |-> <<"item", i>>] IN
       generatedBoard' = Some([title |-> <<"test", n>>,
                               entities |-> entities,
                               images |-> [e \in Range(entities) |->
                                              <<"assets", <<"img", e[2]>> >>],
                               layout |-> "test_layout"])
    /\ UNCHANGED <<mounted, userName, messages, uiState, preview, assets, sessionId,
                   isEditingAfterPreview, pollingRef, timers, jobs, statusReqs,
                   previewReqs, ops, pureVars>>

\* the component unmounts: the cleanup of the polling effect runs
Unmount ==
    /\ mounted
    /\ mounted' = FALSE
    /\ timers' = IF pollingRef # 0 THEN ClearPollingRef ELSE timers
    /\ UNCHANGED <<userName, messages, uiState, preview, assets, generatedBoard,
                   sessionId, isEditingAfterPreview, pollingRef, jobs, statusReqs,
                   previewReqs, ops, pureVars>>

Init == PureIdle /\ \E name \in {"", "u"} : SessionFresh(name)

Next ==
    \/ HandleNameConfirm
    \/ SendWithoutName
    \/ \E text \in UserTexts : Send(text)
    \/ \E e \in EntityLists, sm \in Summaries, sid \in SessionIds :
          PreviewResolved(PreviewOf(e, sm, sid))
    \/ PreviewRejected
    \/ StartGeneration
    \/ \E k \in 1..Len(jobs), sid \in SessionIds : GenerateStartResolved(k, sid)
    \/ \E k \in 1..Len(jobs) : GenerateStartRejected(k)
    \/ \E k \in timers : \E s \in ServiceReach(jobs[k]) : Tick(k, s)
    \/ \E r \in statusReqs : PollRejected(r)
    \/ \E r \in statusReqs : PollResolved(r)
    \/ EditPreview
    \/ startNewConversation
    \/ \E n \in TestImageCounts : generateTestBoard(n)
    \/ Unmount

Spec == Init /\ [][Next]_vars

\* --- the session under fairness of the poll timers and of response delivery ---

JobIds == 1..(MaxOps \div 2)

\* the service has finished job k: it reports completed with assets, or error
ServiceTerminal(k) ==
    /\ k \in 1..Len(jobs)
    /\ jobs[k].phase = "polling"
    /\ \/ jobs[k].status = "error"
       \/ jobs[k].status = "completed" /\ jobs[k].files # None

\* a snapshot with which the service has finished the job
Finished(s) ==
    s.status = "error" \/ (s.status = "completed" /\ s.assets # None)

\* the interval of job k fires after ops has reached MaxOps: the timer keeps
\* firing every 2 s for as long as it is set, whatever else has happened; the
\* first such firing of each job is followed here, answered by a service that
\* has finished the job (a later one is answered and processed the same way)
LateTick(k, s) ==
    /\ k \in timers
    /\ ops = MaxOps
    /\ ~jobs[k].late
    /\ s \in ServiceReach(jobs[k])
    /\ Finished(s)
    /\ jobs' = [jobs EXCEPT ![k].status = s.status, ![k].message = s.message,
                            ![k].files = s.assets, ![k].polls = @ + 1,
                            ![k].late = TRUE]
    /\ statusReqs' = statusReqs \cup
           { [job |-> k, n |-> ops + 1, status |-> s.status,
              message |-> s.message, assets |-> s.assets] }
    /\ UNCHANGED <<mounted, userName, messages, uiState, preview, assets,
                   generatedBoard, sessionId, isEditingAfterPreview, pollingRef,
                   timers, previewReqs, ops, pureVars>>

TimerFires(k) ==
    \E s \in ServiceReach(jobs[k]) : Tick(k, s) \/ LateTick(k, s)

ResponseDelivered(k) ==
    \E r \in statusReqs : r.job = k /\ PollResolved(r)

\* as Next, with timers that go on firing for finished jobs and without
\* transport errors once ops has run out
NextLive ==
    \/ HandleNameConfirm
    \/ SendWithoutName
    \/ \E text \in UserTexts : Send(text)
    \/ \E e \in EntityLists, sm \in Summaries, sid \in SessionIds :
          PreviewResolved(PreviewOf(e, sm, sid))
    \/ PreviewRejected
    \/ StartGeneration
    \/ \E k \in 1..Len(jobs), sid \in SessionIds : GenerateStartResolved(k, sid)
    \/ \E k \in 1..Len(jobs) : GenerateStartRejected(k)
    \/ \E k \in timers : TimerFires(k)
    \/ \E r \in statusReqs : ops < MaxOps /\ PollRejected(r)
    \/ \E r \in statusReqs : PollResolved(r)
    \/ EditPreview
    \/ startNewConversation
    \/ \E n \in TestImageCounts : generateTestBoard(n)
    \/ Unmount

SpecLive ==
    /\ Init
    /\ [][NextLive]_vars
    /\ \A k \in JobIds : WF_vars(k \in timers /\ TimerFires(k))
    /\ \A k \in JobIds : SF_vars(ResponseDelivered(k))

\* ------------------------------------------------------------------------
\* SpecLayout: calculateBoardLayout(count) for 0 <= count <= MaxCount,
\* generateAsymmetricSpiralPositions(rows, cols, count) on grids up to
\* MaxDim x MaxDim, and the binding and display of a board
\* ------------------------------------------------------------------------
\* counts far above the bound: the first fills the content height with rows
\* of gaps alone, the second goes past it
LargeCounts == { 300, 320 }

\* entity lists of a board, the same name at several indices included, each
\* with one image file per entity
BoardInputs ==
    UNION { UNION { { [entities |-> e, files |-> SubSeq(fl, 1, n)] :
                          e \in [1..n -> {"x", "y", "z"}] } : n \in 0..Len(fl) }
            : fl \in FileLists }

\* boards of up to MaxCount entities with pairwise-distinct names
DistinctBoardInputs ==
    { [entities |-> [i \in 1..n |-> <<"e", i>>], files |-> [i \in 1..n |-> <<"f", i>>]] :
          n \in 0..MaxCount }

InitLayout ==
    /\ layoutArgs \in
          { Some([fn |-> "layout", rows |-> 0, cols |-> 0, count |-> c]) :
                c \in (0..MaxCount) \cup LargeCounts }
          \cup
          { Some([fn |-> "board", rows |-> 0, cols |-> 0, count |-> Len(b.entities),
                  entities |-> b.entities, files |-> b.files]) :
                b \in BoardInputs \cup DistinctBoardInputs }
          \cup
          UNION { { Some([fn |-> "spiral", rows |-> r, cols |-> c, count |-> n]) :
                        n \in 0..(r * c) } : r \in 1..MaxDim, c \in 1..MaxDim }
    /\ layoutResult = None
    /\ tilesArgs = None
    /\ tilesResult = None
    /\ tilesSafety = None
    /\ SessionFresh("")

CallCalculateBoardLayout ==
    /\ layoutArgs # None
    /\ layoutResult = None
    /\ layoutArgs[1].fn = "layout"
    /\ layoutResult' = Some(calculateBoardLayout(layoutArgs[1].count))
    /\ UNCHANGED <<tilesArgs, tilesResult, tilesSafety, layoutArgs, sessVars>>

CallSpiral ==
    /\ layoutArgs # None
    /\ layoutResult = None
    /\ layoutArgs[1].fn = "spiral"
    /\ layoutResult' = Some([rows |-> layoutArgs[1].rows, cols |-> layoutArgs[1].cols,
                             spiralPositions |->
                                 generateAsymmetricSpiralPositions(layoutArgs[1].rows,
                                     layoutArgs[1].cols, layoutArgs[1].count)])
    /\ UNCHANGED <<tilesArgs, tilesResult, tilesSafety, layoutArgs, sessVars>>

\* binding and display of a board: the completion branch builds the board
\* from the submitted entities and the image files, the display renders it
CallRenderBoard ==
    /\ layoutArgs # None
    /\ layoutResult = None
    /\ layoutArgs[1].fn = "board"
    /\ LET closure == [preview |-> PreviewOf(layoutArgs[1].entities, "s_hevanti", "sid1")]
           board == BuildBoard(closure, layoutArgs[1].files)
           L == calculateBoardLayout(Len(board.entities))
       IN  layoutResult' = Some([rows |-> L.rows, cols |-> L.cols,
                                 spiralPositions |-> L.spiralPositions,
                                 board |-> board, grid |-> RenderGrid(board)])
    /\ UNCHANGED <<tilesArgs, tilesResult, tilesSafety, layoutArgs, sessVars>>

NextLayout == CallCalculateBoardLayout \/ CallSpiral \/ CallRenderBoard

SpecLayout == InitLayout /\ [][NextLayout]_vars

\* ------------------------------------------------------------------------
\* Properties of computeTiles
\* ------------------------------------------------------------------------
NoDuplicateKeys(tiles) ==
    \A i, j \in 1..Len(tiles) : tiles[i].key = tiles[j].key => i = j

\* the eligible pool, counted tile by tile
EligibleCount(a) ==
    Cardinality({ i \in 1..Len(a.tileLibrary) :
                    TileAllowed(a.tileLibrary[i], ProfileFields(a.profile),
                                a.selectedCategory) })

\* C1: computeTiles returns exactly min(limit, number of eligible tiles) tiles
\* and no tile key occurs twice in the result.
C1_LengthAndNoDuplicates ==
    tilesResult # None =>
        /\ Len(tilesResult[1]) = Min(tilesArgs[1].limit, EligibleCount(tilesArgs[1]))
        /\ NoDuplicateKeys(tilesResult[1])

\* a call where the limit cuts the eligible pool short and a rule has excluded
\* a tile of the library
C1_Witness ==
    /\ tilesResult # None
    /\ Len(tilesArgs[1].tileLibrary) = 2
    /\ EligibleCount(tilesArgs[1]) = 1
    /\ tilesArgs[1].limit = 3
    /\ Len(tilesResult[1]) = 1
    /\ tilesResult[1][1].categories = <<"z">>

\* ------------------------------------------------------------------------
\* Properties of the layout
\* ------------------------------------------------------------------------
Distinct(s) == \A i, j \in 1..Len(s) : s[i] = s[j] => i = j
InGrid(s, rows, cols) ==
    \A i \in 1..Len(s) : s[i][1] \in 0..(rows - 1) /\ s[i][2] \in 0..(cols - 1)

\* C2: calculateBoardLayout(c).spiralPositions has exactly c entries, pairwise
\* distinct, each inside [0,rows) x [0,cols) of the same result.
C2_PositionsInjective ==
    (layoutResult # None /\ layoutArgs[1].fn = "layout") =>
        LET r == layoutResult[1] IN
        /\ Len(r.spiralPositions) = layoutArgs[1].count
        /\ Distinct(r.spiralPositions)
        /\ InGrid(r.spiralPositions, r.rows, r.cols)

\* a full 5-column grid whose two inner rings were needed
C2_Witness ==
    /\ layoutResult # None
    /\ layoutArgs[1].fn = "layout"
    /\ layoutArgs[1].count = 25
    /\ layoutResult[1].rows = 5
    /\ layoutResult[1].spiralPositions[25] = <<2, 2>>

\* ------------------------------------------------------------------------
\* Properties of the NewBoard session
\* ------------------------------------------------------------------------

\* C3: when a completed snapshot with one file per submitted entity is
\* processed, the board holds the entity list that startGeneration submitted
\* for that job, and the image of entities[i] is image_files[i], whatever
\* happened between the submission and the completion.
C3_IndexBinding ==
    [][\A r \in statusReqs :
          (/\ PollResolved(r)
           /\ mounted
           /\ r.status = "completed"
           /\ r.assets # None
           /\ r.assets[1].image_files # None
           /\ Len(r.assets[1].image_files[1]) = Len(jobs[r.job].submitted)
           /\ Distinct(jobs[r.job].submitted))
          => /\ generatedBoard' # None
             /\ generatedBoard'[1].entities = jobs[r.job].submitted
             /\ \A i \in 1..Len(jobs[r.job].submitted) :
                   generatedBoard'[1].images[jobs[r.job].submitted[i]]
                       = <<"assets", r.assets[1].image_files[1][i]>>]_vars

\* a board bound for a job after an earlier progress response, while the
\* session has been reset and holds another preview by now
C3_Witness ==
    /\ generatedBoard # None
    /\ preview # None
    /\ \E k \in 1..Len(jobs) :
          /\ jobs[k].bound = 1
          /\ jobs[k].resolved = 1
          /\ generatedBoard[1].entities = jobs[k].submitted
          /\ jobs[k].submitted = <<"y", "z", "x">>
          /\ preview[1].parsed.entities = <<"x", "y">>
          /\ generatedBoard[1].images["x"] = <<"assets", "f3">>

\* C4: at most one poll timer is active, and startGeneration never issues a
\* generateStart request while a poll timer is still active.
C4_SinglePoller ==
    /\ [](Cardinality(timers) <= 1)
    /\ [][StartGeneration => timers = {}]_vars

\* C5: an error response clears the poll timer of its job, returns uiState to
\* idle and puts its message into the log exactly once (one line added or
\* replaced).
C5_ErrorSurfacedOnce ==
    [][\A r \in statusReqs :
          (PollResolved(r) /\ mounted /\ r.status = "error")
          => /\ r.job \notin timers'
             /\ uiState' = "idle"
             /\ \/ messages' = Append(messages, Agent(r.message))
                \/ messages' = Append(Front(messages), Agent(r.message))]_vars

\* C6: a rejected status request changes nothing (messages, uiState, assets,
\* generatedBoard, the poll timer), so that the timer goes on polling.
C6_RejectedPollChangesNothing ==
    [][\A r \in statusReqs :
          PollRejected(r)
          => /\ messages' = messages
             /\ uiState' = uiState
             /\ assets' = assets
             /\ generatedBoard' = generatedBoard
             /\ timers' = timers
             /\ pollingRef' = pollingRef
             /\ jobs'[r.job].lastMessage = jobs[r.job].lastMessage]_vars

\* every status request of a job was rejected, three in a row, and its timer
\* still runs while the UI shows the generation
C6_Witness ==
    /\ mounted
    /\ uiState = "generating"
    /\ \E k \in timers :
          /\ jobs[k].polls = 3
          /\ jobs[k].resolved = 0
          /\ \A r \in statusReqs : r.job # k

\* C7: the completion step runs at most once per job.
C7_BindAtMostOnce == \A k \in 1..Len(jobs) : jobs[k].bound <= 1

\* C8: a response carrying the message of the response processed before it
\* adds no progress line, a response carrying another message adds or replaces
\* exactly one; the progress lines of a job never outnumber the message
\* changes observed.
C8_ProgressDeduplicated ==
    [][\A r \in statusReqs :
          (PollResolved(r) /\ mounted)
          => LET job == jobs[r.job]
                 same == job.seen = Some(r.message)
                 inProgress == r.status = "in_progress"
             IN  /\ jobs'[r.job].progressLines
                        = job.progressLines + (IF same THEN 0 ELSE 1)
                 /\ jobs'[r.job].progressLines <= jobs'[r.job].changes
                 /\ (inProgress /\ same) => messages' = messages
                 /\ (inProgress /\ ~same) =>
                        \/ messages' = Append(messages, Agent(r.message))
                        \/ messages' = Append(Front(messages), Agent(r.message))]_vars

\* three responses of one job were processed, two of them carrying the same
\* message, and the log holds one line for each of the two messages
C8_Witness ==
    /\ mounted
    /\ \E k \in 1..Len(jobs) :
          /\ jobs[k].resolved = 3
          /\ jobs[k].changes = 2
          /\ jobs[k].progressLines = 2
          /\ jobs[k].lastMessage = "p_yotser_tmuna"
          /\ LastMsg = Agent("p_yotser_tmuna")
          /\ Cardinality({ i \in 1..Len(messages) : messages[i].text = "p_begin" }) = 1

\* C9: after the unmount no poll timer is active and no status request is
\* issued any more.
C9_NoPollingAfterUnmount ==
    /\ [](~mounted => timers = {})
    /\ [][~mounted => statusReqs' \subseteq statusReqs]_vars

\* C10: once the completion or the error branch has run for a job, a later
\* response of that job adds no progress line and changes neither assets,
\* generatedBoard nor uiState.
C10_TerminalNeverLeft ==
    [][\A r \in statusReqs :
          (PollResolved(r) /\ mounted /\ jobs[r.job].terminal)
          => /\ jobs'[r.job].progressLines = jobs[r.job].progressLines
             /\ assets' = assets
             /\ generatedBoard' = generatedBoard
             /\ uiState' = uiState]_vars

\* ------------------------------------------------------------------------
\* Further properties of computeTiles
\* ------------------------------------------------------------------------

\* every rule the tile carries is satisfied by the profile p, a rule about an
\* attribute p lacks counting as satisfied
RuleSatisfied(t, p) ==
    /\ (t.rules.ageMin = None \/ p.age = None \/ p.age[1] >= t.rules.ageMin[1])
    /\ (t.rules.ageMax = None \/ p.age = None \/ p.age[1] <= t.rules.ageMax[1])
    /\ (t.rules.gender = "" \/ p.gender = "" \/ p.gender = t.rules.gender)
    /\ (t.rules.genderNot = "" \/ p.gender = "" \/ p.gender # t.rules.genderNot)
    /\ (t.rules.sectorIn = None \/ p.sector = ""
            \/ p.sector \in Range(t.rules.sectorIn[1]))
    /\ (t.rules.contextIn = None \/ p.context = ""
            \/ p.context \in Range(t.rules.contextIn[1]))

ResultKeys == { tilesResult[1][i].key : i \in 1..Len(tilesResult[1]) }
Unfiltered(a) == a.selectedCategory \in {"", AllCategories}
Roomy(a) == a.limit >= Len(a.tileLibrary)

\* C11: a tile is eligible iff every rule it carries is satisfied by the
\* profile (absent attributes satisfy): no returned tile breaks a rule, and
\* with room for the whole library and no category filter every tile whose
\* rules are satisfied is returned.
C11_EligibleIffRulesSatisfied ==
    tilesResult # None =>
        LET a == tilesArgs[1]
            p == ProfileFields(a.profile)
        IN  /\ \A i \in 1..Len(tilesResult[1]) : RuleSatisfied(tilesResult[1][i], p)
            /\ (Roomy(a) /\ Unfiltered(a)) =>
                  \A j \in 1..Len(a.tileLibrary) :
                      RuleSatisfied(a.tileLibrary[j], p)
                          <=> a.tileLibrary[j].key \in ResultKeys

\* a profile of sector s2 and a library holding a tile restricted to sector s1
\* next to a tile restricted by context, the profile having no context
C11_Witness ==
    /\ tilesResult # None
    /\ tilesArgs[1].profile # NullProfile
    /\ tilesArgs[1].profile.sector = "s2"
    /\ tilesArgs[1].profile.context = ""
    /\ Len(tilesArgs[1].tileLibrary) = 2
    /\ tilesArgs[1].tileLibrary[1].rules.sectorIn = Some(<<"s1">>)
    /\ tilesArgs[1].tileLibrary[2].rules.contextIn = Some(<<"c2">>)
    /\ tilesArgs[1].limit = 2
    /\ Unfiltered(tilesArgs[1])
    /\ ResultKeys = {"k2"}

\* C12: a repeated call with the same arguments returns the same tiles in the
\* same order, and a call changes nothing but the result it hands back.
C12_Deterministic ==
    /\ [](Len(tilesResult) = 2 => tilesResult[2] = tilesResult[1])
    /\ [][NextTiles => (tilesArgs' = tilesArgs /\ UNCHANGED sessVars
                        /\ SubSeq(tilesResult', 1, Len(tilesResult)) = tilesResult)]_vars

\* two calls were made and returned two tiles each
C12_Witness ==
    /\ Len(tilesResult) = 2
    /\ Len(tilesResult[1]) = 2
    /\ Len(tilesResult[2]) = 2
    /\ tilesArgs[1].categoryOrder = <<"b", "a">>

\* the rules of the tile other than its age bounds are satisfied
OtherRulesSatisfied(t, p) ==
    RuleSatisfied([t EXCEPT !.rules.ageMin = None, !.rules.ageMax = None], p)

\* C15: age bounds are inclusive: with room for the whole pool, a tile with
\* ageMin n is absent for age n-1 and present for age n, a tile with ageMax n
\* is present for age n and absent for age n+1 (its other rules satisfied).
C15_AgeBoundsInclusive ==
    (tilesResult # None /\ Roomy(tilesArgs[1]) /\ Unfiltered(tilesArgs[1])
        /\ ProfileFields(tilesArgs[1].profile).age # None) =>
        LET p == ProfileFields(tilesArgs[1].profile)
            age == p.age[1]
        IN  \A j \in 1..Len(tilesArgs[1].tileLibrary) :
              LET t == tilesArgs[1].tileLibrary[j]
                  present == t.key \in ResultKeys
              IN  OtherRulesSatisfied(t, p) =>
                    /\ (t.rules.ageMin # None /\ t.rules.ageMax = None) =>
                          /\ age = t.rules.ageMin[1] - 1 => ~present
                          /\ age = t.rules.ageMin[1] => present
                    /\ (t.rules.ageMax # None /\ t.rules.ageMin = None) =>
                          /\ age = t.rules.ageMax[1] => present
                          /\ age = t.rules.ageMax[1] + 1 => ~present

\* age 13 against a tile with ageMin 13 (returned) and a tile with ageMax 12
\* (held back)
C15_Witness ==
    /\ tilesResult # None
    /\ Roomy(tilesArgs[1]) /\ Unfiltered(tilesArgs[1])
    /\ ProfileFields(tilesArgs[1].profile).age = Some(13)
    /\ Len(tilesArgs[1].tileLibrary) = 2
    /\ tilesArgs[1].tileLibrary[1].rules.ageMin = Some(13)
    /\ tilesArgs[1].tileLibrary[2].rules.ageMax = Some(12)
    /\ ResultKeys = {"k1"}

\* the tiles of the library whose rules are satisfied and, under a category
\* filter f, that are tagged with f
TaggedPool(a, f) ==
    { j \in 1..Len(a.tileLibrary) :
        /\ RuleSatisfied(a.tileLibrary[j], ProfileFields(a.profile))
        /\ f \in Range(a.tileLibrary[j].categories) }
RulePool(a) ==
    { j \in 1..Len(a.tileLibrary) :
        RuleSatisfied(a.tileLibrary[j], ProfileFields(a.profile)) }

\* C19: under a category filter other than the sentinel, every returned tile
\* is tagged with that category and the result has min(limit, number of
\* rule-eligible tiles tagged with it) tiles; with the sentinel or no filter
\* the pool is not restricted by category.
C19_CategoryFilterRestrictsPool ==
    tilesResult # None =>
        LET a == tilesArgs[1] IN
        IF Unfiltered(a)
        THEN Len(tilesResult[1]) = Min(a.limit, Cardinality(RulePool(a)))
        ELSE /\ \A i \in 1..Len(tilesResult[1]) :
                    a.selectedCategory \in Range(tilesResult[1][i].categories)
             /\ Len(tilesResult[1]) =
                    Min(a.limit, Cardinality(TaggedPool(a, a.selectedCategory)))

\* filter "a" over two rule-eligible tiles of which only the second is tagged a
C19_Witness ==
    /\ tilesResult # None
    /\ tilesArgs[1].selectedCategory = "a"
    /\ tilesArgs[1].limit = 3
    /\ Cardinality(RulePool(tilesArgs[1])) = 2
    /\ ResultKeys = {"k2"}

\* C20: computeTiles hands back a list of library tiles for every input:
\* the empty list for limit 0 or an empty pool, a null or empty profile
\* included, and the shorter list when the pool is smaller than limit.
C20_NeverRaises ==
    tilesResult # None =>
        LET a == tilesArgs[1]
            res == tilesResult[1]
        IN  /\ \A i \in 1..Len(res) : res[i] \in Range(a.tileLibrary)
            /\ Len(res) <= a.limit
            /\ a.limit = 0 => res = <<>>
            /\ EligibleCount(a) = 0 => res = <<>>
            /\ EligibleCount(a) < a.limit => Len(res) = EligibleCount(a)

\* a null profile and a limit above the size of the pool
C20_Witness ==
    /\ tilesResult # None
    /\ tilesArgs[1].profile = NullProfile
    /\ tilesArgs[1].limit = 3
    /\ tilesArgs[1].categoryOrder = <<>>
    /\ Len(tilesResult[1]) = 2

\* ------------------------------------------------------------------------
\* Further properties of calculateBoardLayout
\* ------------------------------------------------------------------------

\* C13: for every count of at least 4, the first four positions of
\* calculateBoardLayout(count) are the corners (0,0), (0,cols-1),
\* (rows-1,cols-1), (rows-1,0), in that order.
C13_CornersFirst ==
    (layoutResult # None /\ layoutArgs[1].fn = "layout" /\ layoutArgs[1].count >= 4) =>
        LET r == layoutResult[1] IN
        /\ Len(r.spiralPositions) >= 4
        /\ SubSeq(r.spiralPositions, 1, 4) =
              << <<0, 0>>, <<0, r.cols - 1>>, <<r.rows - 1, r.cols - 1>>,
                 <<r.rows - 1, 0>> >>

\* thirteen tiles on the 4 x 4 grid: corners first, then the edges
C13_Witness ==
    /\ layoutResult # None
    /\ layoutArgs[1].fn = "layout"
    /\ layoutArgs[1].count = 13
    /\ layoutResult[1].spiralPositions[3] = <<3, 3>>
    /\ layoutResult[1].spiralPositions[4] = <<3, 0>>
    /\ layoutResult[1].spiralPositions[5] = <<0, 1>>

\* C14: the grid of calculateBoardLayout(count) follows the threshold table
\* read as cols x rows: up to 4 gives 2x2 (counts 0 and 1 included), up to 6
\* gives 3x2, up to 9 gives 3x3, up to 12 gives 4x3, up to 16 gives 4x4, and
\* above that 5 columns and ceil(count/5) rows.
C14_DimensionTable ==
    (layoutResult # None /\ layoutArgs[1].fn = "layout") =>
        LET r == layoutResult[1]
            n == layoutArgs[1].count
        IN  /\ n \in 0..4 => (r.cols = 2 /\ r.rows = 2)
            /\ n \in 5..6 => (r.cols = 3 /\ r.rows = 2)
            /\ n \in 7..9 => (r.cols = 3 /\ r.rows = 3)
            /\ n \in 10..12 => (r.cols = 4 /\ r.rows = 3)
            /\ n \in 13..16 => (r.cols = 4 /\ r.rows = 4)
            /\ n > 16 => /\ r.cols = 5
                         /\ 5 * r.rows >= n
                         /\ 5 * (r.rows - 1) < n
            /\ r.gridSize = r.cols

\* seventeen tiles need a fourth row of five columns
C14_Witness ==
    /\ layoutResult # None
    /\ layoutArgs[1].fn = "layout"
    /\ layoutArgs[1].count = 17
    /\ layoutResult[1].cols = 5
    /\ layoutResult[1].rows = 4

\* ------------------------------------------------------------------------
\* Further properties of the NewBoard session
\* ------------------------------------------------------------------------

\* a completed snapshot, with its assets, of a job whose completion branch has
\* already set the assets and the board once
SecondCompletion(r) ==
    /\ mounted
    /\ r.status = "completed"
    /\ r.assets # None
    /\ jobs[r.job].firstBound # None

\* C16: when a completed snapshot of a job is processed a second time, the
\* assets and the generated board (title, entities, entity-to-image mapping,
\* layout) it sets are the ones the first processing set; a snapshot without
\* image files leaves the board as it is.
C16_BindingIdempotent ==
    [][\A r \in statusReqs :
          (PollResolved(r) /\ SecondCompletion(r)) =>
              /\ assets' = jobs[r.job].firstBound[1].assets
              /\ IF r.assets[1].image_files # None
                 THEN generatedBoard' = jobs[r.job].firstBound[1].board
                 ELSE generatedBoard' = generatedBoard]_vars

\* the completion branch has run twice for a job with image files, and the
\* session shows what the first run set
C16_Witness ==
    /\ mounted
    /\ \E k \in 1..Len(jobs) :
          /\ jobs[k].bound = 2
          /\ jobs[k].firstBound # None
          /\ jobs[k].files # None
          /\ jobs[k].files[1].image_files # None
          /\ assets = jobs[k].firstBound[1].assets
          /\ generatedBoard # None
          /\ generatedBoard = jobs[k].firstBound[1].board
          /\ generatedBoard[1].entities = jobs[k].submitted

\* C17: processing an error snapshot leaves preview and sessionId unchanged
\* and leaves the session where startGeneration is accepted again, so that a
\* retry needs no new preview request.
C17_ErrorLeavesStartable ==
    [][\A r \in statusReqs :
          (PollResolved(r) /\ mounted /\ r.status = "error") =>
              /\ preview' = preview
              /\ sessionId' = sessionId
              /\ StartAccepted']_vars

\* C18: after startNewConversation, a poll response of a job started before
\* the reset changes none of messages, assets, generatedBoard and uiState, and
\* stops no timer of a job started after the reset.
C18_ResetIsolatesSessions ==
    [][\A r \in statusReqs :
          (PollResolved(r) /\ jobs[r.job].stale) =>
              /\ UNCHANGED <<messages, assets, generatedBoard, uiState>>
              /\ \A k \in timers : ~jobs[k].stale => k \in timers']_vars

\* ------------------------------------------------------------------------
\* Properties of generateAsymmetricSpiralPositions and of the fill order
\* ------------------------------------------------------------------------

\* C21: for every grid of at least one row and one column and every count up
\* to rows*cols, generateAsymmetricSpiralPositions returns exactly count
\* positions, pairwise distinct and all inside the grid.
C21_SpiralOnAnyGrid ==
    (layoutResult # None /\ layoutArgs[1].fn = "spiral") =>
        LET r == layoutResult[1] IN
        /\ Len(r.spiralPositions) = layoutArgs[1].count
        /\ Distinct(r.spiralPositions)
        /\ InGrid(r.spiralPositions, r.rows, r.cols)

\* the outer ring without its corners: top edge left to right, right edge top
\* to bottom, bottom edge right to left, left edge bottom to top
OuterWalk(rows, cols) ==
       [k \in 1..(cols - 2) |-> <<0, k>>]
    \o [k \in 1..(rows - 2) |-> <<k, cols - 1>>]
    \o [k \in 1..(cols - 2) |-> <<rows - 1, cols - 1 - k>>]
    \o [k \in 1..(rows - 2) |-> <<rows - 1 - k, 0>>]

\* the ring a cell lies on, 0 being the outer ring
RingOf(pos, rows, cols) ==
    Min(Min(pos[1], rows - 1 - pos[1]), Min(pos[2], cols - 1 - pos[2]))

\* C24: after the four corners calculateBoardLayout places the rest of the
\* outer ring in the order top, right, bottom, left edge, cells of an inner
\* ring only after every cell of the rings around it, and the positions for a
\* count are a prefix of the positions for any larger count on the same grid.
C24_SpiralFillOrder ==
    (layoutResult # None /\ layoutArgs[1].fn = "layout") =>
        LET r == layoutResult[1]
            n == layoutArgs[1].count
            pos == r.spiralPositions
            walk == OuterWalk(r.rows, r.cols)
        IN  /\ \A i \in 5..Len(pos) :
                  IF i - 4 <= Len(walk)
                  THEN pos[i] = walk[i - 4]
                  ELSE RingOf(pos[i], r.rows, r.cols) >= 1
            /\ \A i, j \in 1..Len(pos) :
                  i < j => RingOf(pos[i], r.rows, r.cols) <= RingOf(pos[j], r.rows, r.cols)
            /\ \A m \in 0..n :
                  LET s == calculateBoardLayout(m) IN
                  (s.rows = r.rows /\ s.cols = r.cols) =>
                      s.spiralPositions = SubSeq(pos, 1, m)

\* seven tiles on the 3 x 3 grid: positions 4..6 (counted from 0) are (0,1),
\* (1,2), (2,1)
C24_Witness ==
    /\ layoutResult # None
    /\ layoutArgs[1].fn = "layout"
    /\ layoutArgs[1].count = 7
    /\ layoutResult[1].rows = 3 /\ layoutResult[1].cols = 3
    /\ SubSeq(layoutResult[1].spiralPositions, 5, 7) = << <<0, 1>>, <<1, 2>>, <<2, 1>> >>

\* ------------------------------------------------------------------------
\* Balancing, fallback fill and the safety counter of computeTiles
\* ------------------------------------------------------------------------

\* the library indices of the tiles that pass the rules and the category filter
FilteredPool(a) ==
    IF Unfiltered(a) THEN RulePool(a) ELSE TaggedPool(a, a.selectedCategory)

\* the tiles of the pool tagged with a category of categoryOrder, and the others
Reachable(a) ==
    { j \in FilteredPool(a) :
        Range(a.tileLibrary[j].categories) \cap Range(a.categoryOrder) # {} }
Unreachable(a) == FilteredPool(a) \ Reachable(a)

LeastOf(S) == CHOOSE j \in S : \A k \in S : j <= k

\* what the first sweep picks, category by category from index i of
\* categoryOrder on: the first tile of the pool, in library order, that is
\* tagged with the category and not yet picked
RECURSIVE FirstSweepPicks(_, _, _, _)
FirstSweepPicks(i, pickedIdx, acc, a) ==
    IF i > Len(a.categoryOrder) THEN acc
    ELSE LET cand == { j \in FilteredPool(a) \ pickedIdx :
                          a.categoryOrder[i] \in Range(a.tileLibrary[j].categories) }
         IN  IF cand = {} THEN FirstSweepPicks(i + 1, pickedIdx, acc, a)
             ELSE FirstSweepPicks(i + 1, pickedIdx \cup {LeastOf(cand)},
                                  Append(acc, a.tileLibrary[LeastOf(cand)]), a)

\* C25: with limit at least the number of categories in categoryOrder, every
\* category of categoryOrder that has an eligible tile is represented in the
\* result, and the result starts with the picks of the first sweep: in
\* categoryOrder order, each the first not-yet-picked eligible tile of its
\* category in library order.
C25_CategoryBalance ==
    (tilesResult # None /\ tilesArgs[1].limit >= Len(tilesArgs[1].categoryOrder)) =>
        LET a == tilesArgs[1]
            res == tilesResult[1]
            first == FirstSweepPicks(1, {}, <<>>, a)
        IN  /\ \A c \in Range(a.categoryOrder) :
                  (\E j \in FilteredPool(a) : c \in Range(a.tileLibrary[j].categories))
                      => \E i \in 1..Len(res) : c \in Range(res[i].categories)
            /\ Len(first) <= Len(res)
            /\ SubSeq(res, 1, Len(first)) = first

\* order <<b, a>> over a tile tagged a and b followed by a tile tagged a: the
\* sweep picks the first tile for b and the second for a
C25_Witness ==
    /\ tilesResult # None
    /\ tilesArgs[1].categoryOrder = <<"b", "a">>
    /\ tilesArgs[1].limit = 2
    /\ Len(tilesArgs[1].tileLibrary) = 2
    /\ tilesArgs[1].tileLibrary[1].categories = <<"a", "b">>
    /\ tilesArgs[1].tileLibrary[2].categories = <<"a">>
    /\ Len(tilesResult[1]) = 2
    /\ tilesResult[1][1].key = "k1"
    /\ tilesResult[1][2].key = "k2"

\* the tiles of the sequence s whose library index is in the set S
TilesAt(s, S, a) == SelectSeq(s, LAMBDA t : \E j \in S : a.tileLibrary[j] = t)

\* C26: the slots that balancing leaves open are filled with unpicked
\* eligible tiles in library order: eligible tiles none of whose categories
\* is in categoryOrder are selected as far as limit exceeds the number of
\* tiles reachable through categoryOrder, in library order, and after every
\* tile picked by balancing.
C26_FallbackFill ==
    tilesResult # None =>
        LET a == tilesArgs[1]
            res == tilesResult[1]
            room == Max(a.limit - Cardinality(Reachable(a)), 0)
            late == TilesAt(a.tileLibrary, Unreachable(a), a)
        IN  /\ TilesAt(res, Unreachable(a), a) = SubSeq(late, 1, Min(room, Len(late)))
            /\ \A i, j \in 1..Len(res) :
                  (res[i] \in Range(late) /\ res[j] \notin Range(late)) => j < i

\* a tile outside categoryOrder in front of a tile tagged a: the result holds
\* the tagged tile first and the other one behind it
C26_Witness ==
    /\ tilesResult # None
    /\ tilesArgs[1].categoryOrder = <<"a", "b">>
    /\ tilesArgs[1].limit = 3
    /\ Len(tilesArgs[1].tileLibrary) = 2
    /\ tilesArgs[1].tileLibrary[1].categories = <<"z">>
    /\ tilesArgs[1].tileLibrary[2].categories = <<"a">>
    /\ Len(tilesResult[1]) = 2
    /\ tilesResult[1][1].key = "k2"
    /\ tilesResult[1][2].key = "k1"

\* C27: computeTiles returns for every library, categoryOrder and limit, and
\* its balancing loop runs at most 500 sweeps, also when no sweep picks a tile
\* (no eligible tile under a category of categoryOrder, an empty
\* categoryOrder, tiles without categories).
C27_AtMost500Sweeps ==
    tilesResult # None =>
        /\ Len(tilesSafety) = Len(tilesResult)
        /\ \A i \in 1..Len(tilesSafety) : tilesSafety[i] \in 0..500
        /\ Len(tilesResult[1]) =
              Min(tilesArgs[1].limit, Cardinality(FilteredPool(tilesArgs[1])))

\* an empty categoryOrder over two tiles, one of them without categories: the
\* sweeps pick nothing, the loop runs into its cap and the call returns both
C27_Witness ==
    /\ tilesResult # None
    /\ tilesArgs[1].categoryOrder = <<>>
    /\ tilesArgs[1].limit = 3
    /\ Len(tilesArgs[1].tileLibrary) = 2
    /\ tilesArgs[1].tileLibrary[2].categories = <<>>
    /\ tilesSafety[1] = 500
    /\ Len(tilesResult[1]) = 2

\* C28: for every count the gap of calculateBoardLayout is an integer in
\* [16, 30] and the cell size s an integer with cols*s + (cols-1)*gap <= 730
\* and rows*s + (rows-1)*gap <= 1003: the square cells stay inside the content
\* area.
C28_GapAndCellSize ==
    (layoutResult # None /\ layoutArgs[1].fn = "layout") =>
        LET r == layoutResult[1]
            s == r.baseCellSize
        IN  /\ r.gap \in 16..30
            /\ s \in Int
            /\ r.cols * s + (r.cols - 1) * r.gap <= 730
            /\ r.rows * s + (r.rows - 1) * r.gap <= 1003

\* five tiles on 3 columns and 2 rows: the gap is raised to 16 and the width
\* decides the cell size
C28_Witness ==
    /\ layoutResult # None
    /\ layoutArgs[1].fn = "layout"
    /\ layoutArgs[1].count = 5
    /\ layoutResult[1].gap = 16
    /\ layoutResult[1].baseCellSize = 232

\* ------------------------------------------------------------------------
\* Liveness of a job, the input area, completion without assets
\* ------------------------------------------------------------------------

\* C22: under fairness of the poll timer and of response delivery, once the
\* service reports completed with assets, or error, for a job and goes on
\* doing so, the poll timer of the job is eventually cleared and the session
\* is no longer in uiState generating.
C22_JobEventuallySettles ==
    \A k \in JobIds :
        (ServiceTerminal(k) /\ k \in timers)
            ~> (k \notin timers /\ (mounted => uiState = "idle"))

\* C23: the conversation input is enabled in every UI state, while the agent
\* is thinking and while a board is generated included.
C23_InputAlwaysEnabled == mounted => InputEnabled

\* C30: every processed poll response with status completed clears the poll
\* timer of its job and returns uiState to idle, with or without an assets
\* object.
C30_CompletedEndsJob ==
    [][\A r \in statusReqs :
          (PollResolved(r) /\ mounted /\ r.status = "completed") =>
              /\ r.job \notin timers'
              /\ uiState' = "idle"]_vars

\* C29: when the submitted entity list holds the same name at two indices,
\* the tile displayed for each index still shows the image file of that
\* index, and the tiles of different indices lie in different cells.
C29_IndexBindingWithDuplicates ==
    (layoutResult # None /\ layoutArgs[1].fn = "board") =>
        LET r == layoutResult[1]
            e == layoutArgs[1].entities
            f == layoutArgs[1].files
        IN  /\ \A i, j \in 1..Len(e) : i # j => r.spiralPositions[i] # r.spiralPositions[j]
            /\ \A i \in 1..Len(e) :
                  /\ r.grid[r.spiralPositions[i]] # None
                  /\ r.grid[r.spiralPositions[i]][1].entity = e[i]
                  /\ r.grid[r.spiralPositions[i]][1].image = <<"assets", f[i]>>


(***************************************************************************)
(* Further properties of the session                                       *)
(***************************************************************************)

\* C31: a poll timer is active only while uiState is generating: in every
\* state with uiState idle or thinking no poll timer is set (and so no status
\* request will be issued).
C31_TimerOnlyWhileGenerating ==
    uiState \in {"idle", "thinking"} => timers = {}


\* a generation job is in progress: its generateStart request is in flight or
\* its poll timer is set
JobInProgress(k) ==
    k \in 1..Len(jobs) /\ (jobs[k].phase = "starting" \/ k \in timers)

\* C32: a preview request and a generation job (start request in flight or
\* poll timer set) are never in progress at the same time.
C32_PreviewAndJobExclusive ==
    ~(previewReqs > 0 /\ \E k \in 1..Len(jobs) : JobInProgress(k))


\* C33: when the generateStart request fails, exactly one agent error message
\* is appended to the log, uiState becomes idle, no poll timer is created, and
\* preview, assets and generatedBoard keep their values.
C33_StartFailureHandled ==
    [][\A k \in 1..Len(jobs) :
          (GenerateStartRejected(k) /\ mounted)
          => /\ messages' = Append(messages, Agent("error_start"))
             /\ uiState' = "idle"
             /\ timers' = timers /\ k \notin timers'
             /\ preview' = preview /\ assets' = assets
             /\ generatedBoard' = generatedBoard]_vars

\* a generateStart request has failed while uiState was generating: the error
\* is the last line of the log and the session is idle, without a timer
C33_Witness ==
    /\ mounted
    /\ Len(jobs) = 1 /\ jobs[1].phase = "rejected"
    /\ uiState = "idle" /\ timers = {}
    /\ preview # None
    /\ messages[Len(messages)] = Agent("error_start")
    /\ messages[Len(messages) - 1] = Agent("starting")


\* C34: when the preview request fails, exactly one agent error message is
\* appended to the log (which holds the user's message), uiState becomes idle,
\* and the stored preview and sessionId keep their values; when the preview
\* request succeeds uiState becomes idle as well.
C34_PreviewFailureHandled ==
    [][/\ (PreviewRejected /\ mounted)
          => /\ messages' = Append(messages, Agent("error_preview"))
             /\ uiState' = "idle"
             /\ preview' = preview /\ sessionId' = sessionId
       /\ \A e \in EntityLists, sm \in Summaries, sid \in SessionIds :
             (PreviewResolved(PreviewOf(e, sm, sid)) /\ mounted)
             => uiState' = "idle"]_vars

\* a preview request has failed with a preview stored from an earlier request:
\* the error follows the user's message, the preview is still there
C34_Witness ==
    /\ mounted
    /\ uiState = "idle" /\ previewReqs = 0
    /\ preview # None /\ sessionId # ""
    /\ Len(messages) >= 2
    /\ messages[Len(messages)] = Agent("error_preview")
    /\ messages[Len(messages) - 1].role = "user"


\* the user's messages of a log, in order
UserMessages(m) == SelectSeq(m, LAMBDA msg : msg.role = "user")

\* C35: processing a poll response (progress update, completion or error)
\* never removes or rewrites a message whose role is user: the subsequence of
\* user messages of the log is the same before and after.
C35_UserMessagesKept ==
    [][\A r \in statusReqs :
          PollResolved(r) => UserMessages(messages') = UserMessages(messages)]_vars


\* ------------------------------------------------------------------------
\* Fairness of the round-robin of computeTiles
\* ------------------------------------------------------------------------

\* the tiles of the sequence s that carry category c
CountOf(s, c) == Len(SelectSeq(s, LAMBDA t : c \in Range(t.categories)))

\* every eligible tile carries exactly one category, one of categoryOrder
SingleCategoryPool(a) ==
    \A j \in FilteredPool(a) :
        /\ Cardinality(Range(a.tileLibrary[j].categories)) = 1
        /\ Range(a.tileLibrary[j].categories) \subseteq Range(a.categoryOrder)

\* every eligible tile of category c is in the result
Exhausted(a, res, c) ==
    \A j \in FilteredPool(a) :
        c \in Range(a.tileLibrary[j].categories) => a.tileLibrary[j] \in Range(res)

\* C36: when every eligible tile carries exactly one category and that
\* category is in categoryOrder, then for any two categories c1 and c2: if an
\* eligible tile of c1 is missing from the result, the result holds at least
\* (number of c2 tiles in the result) - 1 tiles of c1.
C36_RoundRobinFair ==
    (tilesResult # None /\ SingleCategoryPool(tilesArgs[1])) =>
        LET a == tilesArgs[1]
            res == tilesResult[1]
        IN  \A c1, c2 \in Range(a.categoryOrder) :
                ~Exhausted(a, res, c1) => CountOf(res, c1) >= CountOf(res, c2) - 1

\* four tiles, three of a and one of b, limit 3: b is exhausted after one
\* pick, a has two tiles in the result and one left out
C36_Witness ==
    /\ tilesResult # None
    /\ SingleCategoryPool(tilesArgs[1])
    /\ tilesArgs[1].categoryOrder = <<"b", "a">>
    /\ tilesArgs[1].limit = 3
    /\ Len(tilesArgs[1].tileLibrary) = 4
    /\ CountOf(tilesArgs[1].tileLibrary, "a") = 3
    /\ CountOf(tilesResult[1], "a") = 2
    /\ CountOf(tilesResult[1], "b") = 1
    /\ ~Exhausted(tilesArgs[1], tilesResult[1], "a")


\* ------------------------------------------------------------------------
\* Display of a generated board
\* ------------------------------------------------------------------------

\* the cells of a grid that show an entity
Occupied(grid) == { cell \in DOMAIN grid : grid[cell] # None }

\* C37: when a board with n pairwise-distinct entities is rendered, entity i
\* is placed in cell spiralPositions[i], no cell receives two entities, every
\* entity is placed, and exactly n of the rows*cols cells are occupied.
C37_BoardPlacement ==
    (layoutResult # None /\ layoutArgs[1].fn = "board"
        /\ Distinct(layoutArgs[1].entities)) =>
        LET r == layoutResult[1]
            e == layoutArgs[1].entities
            n == Len(e)
        IN  /\ \A i \in 1..n :
                  /\ r.spiralPositions[i] \in DOMAIN r.grid
                  /\ r.grid[r.spiralPositions[i]] # None
                  /\ r.grid[r.spiralPositions[i]][1].entity = e[i]
            /\ \A i, j \in 1..n : r.spiralPositions[i] = r.spiralPositions[j] => i = j
            /\ \A i \in 1..n : \E cell \in Occupied(r.grid) : r.grid[cell][1].entity = e[i]
            /\ Cardinality(DOMAIN r.grid) = r.rows * r.cols
            /\ Cardinality(Occupied(r.grid)) = n
            /\ Cardinality(DOMAIN r.grid \ Occupied(r.grid)) = r.rows * r.cols - n

\* a board of seven entities on its 3 x 3 grid: the fifth entity lies on the
\* top edge next to the first corner, the centre and one edge cell stay empty
C37_Witness ==
    /\ layoutResult # None /\ layoutArgs[1].fn = "board"
    /\ Distinct(layoutArgs[1].entities)
    /\ Len(layoutArgs[1].entities) = 7
    /\ Cardinality(DOMAIN layoutResult[1].grid) = 9
    /\ layoutResult[1].grid[<<1, 1>>] = None
    /\ Cardinality(Occupied(layoutResult[1].grid)) = 7
    /\ layoutResult[1].grid[<<0, 0>>][1].entity = <<"e", 1>>
    /\ layoutResult[1].grid[<<0, 1>>] # None
    /\ layoutResult[1].grid[<<0, 1>>][1].entity = <<"e", 5>>


\* ------------------------------------------------------------------------
\* Capacity and cell size of calculateBoardLayout
\* ------------------------------------------------------------------------

\* C38: for every count >= 0 the grid of calculateBoardLayout(count) has room
\* for count cells (rows*cols >= count), and from count 17 on it is the grid
\* of 5 columns with the fewest rows that fit (rows*cols - count <= 4).
C38_GridCapacity ==
    (layoutResult # None /\ layoutArgs[1].fn = "layout") =>
        LET r == layoutResult[1]
            n == layoutArgs[1].count
        IN  /\ r.rows * r.cols >= n
            /\ n >= 17 => /\ r.cols = 5
                          /\ r.rows * r.cols - n <= 4
                          /\ \A fewer \in 1..(r.rows - 1) : 5 * fewer < n

\* twenty-one tiles: five rows of five columns, four cells to spare
C38_Witness ==
    /\ layoutResult # None
    /\ layoutArgs[1].fn = "layout"
    /\ layoutArgs[1].count = 21
    /\ layoutResult[1].rows = 5 /\ layoutResult[1].cols = 5
    /\ layoutResult[1].rows * layoutResult[1].cols - layoutArgs[1].count = 4


\* the counts calculateBoardLayout is applied to
LayoutCounts == (1..MaxCount) \cup LargeCounts

\* the cell size is non-increasing in count, from count n downwards
CellSizeAntitone(n, size) ==
    \A m \in LayoutCounts : m <= n => calculateBoardLayout(m).baseCellSize >= size

\* C39: for every count >= 1 the cell size of calculateBoardLayout(count) is
\* a positive integer (at least 1 pixel), and it is non-increasing as count
\* grows.
C39_CellSizePositive ==
    (layoutResult # None /\ layoutArgs[1].fn = "layout" /\ layoutArgs[1].count >= 1) =>
        /\ layoutResult[1].baseCellSize \in Nat
        /\ layoutResult[1].baseCellSize >= 1
        /\ CellSizeAntitone(layoutArgs[1].count, layoutResult[1].baseCellSize)

====
